---- MODULE Spec2Model ----
(***************************************************************************)
(* BB84 quantum key distribution + secure message demo                     *)
(* (src/QKD/bb84_qkd.py): the Tk callback run_simulation and the function  *)
(* run_bb84 it calls.  Characters are modelled by their code points, bit   *)
(* lists and basis lists by sequences, a one-qubit circuit by its gate     *)
(* list, and the state of the qubit by one of |0>, |1>, |+>, |->.          *)
(*                                                                         *)
(* Quantum dice (src/Q_Dice/quantum_dice_gui.py): the functions            *)
(* quantum_roll_one_rejection and batch_rolls, and the window with its     *)
(* worker threads and the callbacks they schedule on the Tk event loop.    *)
(***************************************************************************)
EXTENDS Integers, Sequences, FiniteSets, TLC

VARIABLES
    message,            \* the text run_simulation read from entry_message
    alice_bits,         \* locals of the latest run_bb84 call ...
    alice_bases,
    bob_bases,
    bob_results,
    bob_counts,         \* keys of result.get_counts() of each round
    shared_key,
    message_bits,
    key_for_message,
    cipher_bits,
    decrypted_bits,
    decrypted_message,
    raised,             \* exception that ended the latest call, or "none"
    outcome,            \* how the latest handler invocation ended
    status_label,       \* text of the status label
    text_output         \* content of the text widget

VARIABLES
    history,            \* QuantumDiceGUI.history
    history_box,        \* the rolls listed in the history listbox
    roll_button,        \* state of the "Roll Once" button
    roll_many_button,   \* state of the "Roll Many" button
    qubits_var,         \* text of the qubits spinbox
    shots_var,          \* text of the shots entry
    mode_var,           \* the mode picked in the combobox
    aer_available,      \* AER_AVAILABLE
    last_dialog,        \* the latest message box shown
    worker,             \* position of each worker thread, "none" if free
    w_use_aer,          \* locals of each worker: use_aer,
    w_nq,               \*   n_qubits,
    w_val,              \*   val,
    w_results,          \*   results,
    w_i,                \*   rolls of results still to insert,
    w_copy,             \*   the slice self.history[:500] before assignment,
    w_shots,            \*   shots,
    w_samples,          \*   samples and
    w_bitval,           \*   bitval of quantum_roll_one_rejection
    bitval,             \* the latest raw sample of batch_rolls
    after_queue,        \* callbacks scheduled with root.after(0, ...)
    cb_idx,             \* on_batch_complete: entries of the list it walks
                        \*   already shown, -1 outside the loop of line 300
    cb_detached,        \* the list it walks is no longer self.history
    cb_list,            \* that list, once detached
    ops                 \* operations completed (SpecHistory)

VARIABLES
    bpc,                \* position in batch_rolls
    n_rolls,            \* arguments and locals of batch_rolls ...
    use_aer,
    results,
    remaining,
    samples,            \* latest list returned by quantum_samples_shots
    requests            \* calls of quantum_samples_shots so far

VARIABLES
    player_turn,        \* TRUE when it is X's turn
    clicked_cells,      \* clicked_cells[i + 1] of the program's index i
    button_text,        \* text of each cell button
    button_state,       \* state of each cell button
    board_qc,           \* the qubits of the game's qc that carry an H gate
    turn_label          \* text of the status label of the game

bb84vars == <<message, alice_bits, alice_bases, bob_bases, bob_results,
              bob_counts, shared_key, message_bits, key_for_message,
              cipher_bits, decrypted_bits, decrypted_message, raised,
              outcome, status_label, text_output>>

guivars == <<history, history_box, roll_button, roll_many_button,
             qubits_var, shots_var, mode_var, aer_available, last_dialog,
             worker, w_use_aer, w_nq, w_val, w_results, w_i, w_copy, w_shots,
             w_samples, w_bitval, after_queue, cb_idx, cb_detached, cb_list,
             ops>>

batchvars == <<bpc, n_rolls, use_aer, results, remaining, samples, requests>>

dicevars == <<guivars, batchvars, bitval>>

tttvars == <<player_turn, clicked_cells, button_text, button_state,
             board_qc, turn_label>>

vars == <<bb84vars, dicevars, tttvars>>

----------------------------------------------------------------------------
(* Bounds of the model *)

\* rounds of a transcript, counted from the first, that may differ from the
\* other rounds (the random draws are otherwise unrestricted)
MaxVaried == 1
\* longest message, in characters
MaxMsgLen == 2
\* longest sifted key drawn directly (SpecPipeline)
MaxKeyLen == 5
\* longest operand of the transform taken by itself
MaxBits == 3

\* worker threads alive at once
MaxWorkers == 2
\* clicks and edits of the user in a run of SpecDice
MaxOps == 4
\* clicks of the user in a run of SpecHistory
MaxClicks == 2
\* most rolls asked of batch_rolls (SpecBatch, SpecDice)
MaxRolls == 3
\* most calls of quantum_samples_shots in one call of batch_rolls
MaxRequests == 2

(* Program constants *)
num_bits == 8
Width == 8

Bit == {0, 1}
Bases == {"Z", "X"}
\* code points typed into the entry: NUL, 'H', 'I', U+00FF and U+012C
Alphabet == {0, 72, 73, 255, 300}

Min(a, b) == IF a < b THEN a ELSE b

SeqsUpTo(S, n) == UNION {[1..k -> S] : k \in 0..n}

Messages == SeqsUpTo(Alphabet, MaxMsgLen)

\* the messages typed into the entry widget
EntryMessages == {<<>>, <<72, 73>>}

----------------------------------------------------------------------------
(* The one-qubit circuits *)

\* encode_bit: Hadamard first when the basis is X, then X when the bit is 1
encode_bit(bit, basis) ==
    (IF basis = "X" THEN <<"h">> ELSE <<>>) \o
    (IF bit = 1 THEN <<"x">> ELSE <<>>)

\* the action of a gate on the state of the qubit, up to a global phase
ApplyGate(g, q) ==
    IF g = "h"
    THEN CASE q = "0" -> "+"
           [] q = "1" -> "-"
           [] q = "+" -> "0"
           [] q = "-" -> "1"
    ELSE CASE q = "0" -> "1"
           [] q = "1" -> "0"
           [] q = "+" -> "+"
           [] q = "-" -> "-"

RECURSIVE Evolve(_, _)
Evolve(gates, q) ==
    IF gates = <<>> THEN q
    ELSE Evolve(Tail(gates), ApplyGate(Head(gates), q))

\* BobCircuit without the Hadamard: Bob always measures in the Z basis
BobCircuit_NoRotation(qc, basis) == qc

\* Bob's loop body: a Hadamard when his basis is X, then the measurement
BobCircuit(qc, basis) ==
    qc \o (IF basis = "X" THEN <<"h">> ELSE <<>>)

\* the keys of result.get_counts() for a circuit started in |0>
CountsKeys(qc) ==
    LET q == Evolve(qc, "0")
    IN  CASE q = "0" -> {0}
          [] q = "1" -> {1}
          [] OTHER  -> {0, 1}

\* int(list(result.get_counts().keys())[0]): the first key; when both
\* outcomes were counted the order of the keys decides, here the draw `first'
MeasuredBit(qc, first) ==
    IF first \in CountsKeys(qc) THEN first
    ELSE CHOOSE b \in CountsKeys(qc) : TRUE

----------------------------------------------------------------------------
(* run_bb84 *)

\* SiftFrom with the filter on the two bits instead of the two bases
RECURSIVE SiftFrom_OnBits(_, _, _, _, _)
SiftFrom_OnBits(i, bits, measured, abases, bbases) ==
    IF i > Min(Min(Len(bits), Len(measured)), Min(Len(abases), Len(bbases)))
    THEN <<>>
    ELSE (IF bits[i] = measured[i] THEN <<measured[i]>> ELSE <<>>) \o
         SiftFrom_OnBits(i + 1, bits, measured, abases, bbases)

\* the list comprehension of line 36, over the zipped lists
RECURSIVE SiftFrom(_, _, _, _, _)
SiftFrom(i, bits, measured, abases, bbases) ==
    IF i > Min(Min(Len(bits), Len(measured)), Min(Len(abases), Len(bbases)))
    THEN <<>>
    ELSE (IF abases[i] = bbases[i] THEN <<measured[i]>> ELSE <<>>) \o
         SiftFrom(i + 1, bits, measured, abases, bbases)

Sift(bits, measured, abases, bbases) == SiftFrom(1, bits, measured, abases, bbases)

\* the binary digits of n, most significant first
RECURSIVE Bin(_)
Bin(n) == IF n < 2 THEN <<n>> ELSE Bin(n \div 2) \o <<n % 2>>

\* Format08b without the zero padding (format(n, 'b'))
Format08b_NoPad(n) == Bin(n)

\* format(n, '08b'): zero-padded to at least 8 digits
Format08b(n) ==
    LET d == Bin(n)
    IN  IF Len(d) >= Width THEN d
        ELSE [i \in 1..(Width - Len(d)) |-> 0] \o d

\* line 39
RECURSIVE MessageBits(_)
MessageBits(msg) ==
    IF msg = <<>> THEN <<>>
    ELSE Format08b(Head(msg)) \o MessageBits(Tail(msg))

\* list * n
RECURSIVE Repeat(_, _)
Repeat(s, n) == IF n <= 0 THEN <<>> ELSE s \o Repeat(s, n - 1)

\* list[:n]
Take(s, n) == SubSeq(s, 1, Min(n, Len(s)))

\* ExpandKey without the extra copy of the key
ExpandKey_NoExtra(key, L) == Take(Repeat(key, L \div Len(key)), L)

\* ExpandKey that pads the key with zeros instead of repeating it
ExpandKey_ZeroPad(key, L) == Take(key \o [i \in 1..L |-> 0], L)

\* ExpandKey without the slice [:L]
ExpandKey_NoSlice(key, L) == Repeat(key, (L \div Len(key)) + 1)

\* line 42, for a non-empty key
ExpandKey(key, L) == Take(Repeat(key, (L \div Len(key)) + 1), L)

\* Xor with | in place of ^
Xor_Or(x, y) ==
    [i \in 1..Min(Len(x), Len(y)) |-> IF x[i] + y[i] > 0 THEN 1 ELSE 0]

\* Xor with & in place of ^
Xor_And(x, y) == [i \in 1..Min(Len(x), Len(y)) |-> x[i] * y[i]]

\* lines 45 and 46: [a ^ b for a, b in zip(x, y)]
Xor(x, y) == [i \in 1..Min(Len(x), Len(y)) |-> (x[i] + y[i]) % 2]

\* BitsToInt reading the group least significant bit first
RECURSIVE BitsToInt_LsbFirst(_)
BitsToInt_LsbFirst(group) ==
    IF group = <<>> THEN 0
    ELSE group[1] + 2 * BitsToInt_LsbFirst(Tail(group))

\* int(''.join(map(str, group)), 2)
RECURSIVE BitsToInt(_)
BitsToInt(group) ==
    IF group = <<>> THEN 0
    ELSE 2 * BitsToInt(SubSeq(group, 1, Len(group) - 1)) + group[Len(group)]

\* line 47: one character per slice [i:i+8], i = 0, 8, 16, ...
RECURSIVE DecodeBits(_)
DecodeBits(bits) ==
    IF bits = <<>> THEN <<>>
    ELSE <<BitsToInt(Take(bits, Width))>> \o
         DecodeBits(SubSeq(bits, Width + 1, Len(bits)))

----------------------------------------------------------------------------
(* The random draws of one run: one kind of round, repeated, and one       *)
(* round among the first MaxVaried of another kind.                        *)

RoundKinds == [bit : Bit, abasis : Bases, bbasis : Bases, first : Bit]

KindAt(i, base, p, special) == IF i = p THEN special ELSE base

\* lines 38-47 from a sifted key; ZeroDivisionError leaves the rest unbound
Lines38to47(msg, key) ==
    LET mb == MessageBits(msg)
    IN  IF Len(key) = 0
        THEN [message_bits |-> mb, key_for_message |-> <<>>,
              cipher_bits |-> <<>>, decrypted_bits |-> <<>>,
              decrypted_message |-> <<>>, raised |-> "ZeroDivisionError"]
        ELSE LET kfm == ExpandKey(key, Len(mb))
                 cb  == Xor(mb, kfm)
                 db  == Xor(cb, kfm)
             IN  [message_bits |-> mb, key_for_message |-> kfm,
                  cipher_bits |-> cb, decrypted_bits |-> db,
                  decrypted_message |-> DecodeBits(db), raised |-> "none"]

\* the slots of the worker threads
Workers == 1..MaxWorkers

\* QuantumDiceGUI.__init__: the widgets of the dice program at start, no
\* thread started
GuiWidgets ==
    /\ history = <<>>
    /\ history_box = <<>>
    /\ roll_button = "normal"
    /\ roll_many_button = "normal"
    /\ qubits_var = "3"
    /\ last_dialog = "none"
    /\ worker = [w \in Workers |-> "none"]
    /\ w_use_aer = [w \in Workers |-> FALSE]
    /\ w_nq = [w \in Workers |-> 0]
    /\ w_val = [w \in Workers |-> 0]
    /\ w_results = [w \in Workers |-> <<>>]
    /\ w_i = [w \in Workers |-> 0]
    /\ w_copy = [w \in Workers |-> <<>>]
    /\ w_shots = [w \in Workers |-> 0]
    /\ w_samples = [w \in Workers |-> <<>>]
    /\ w_bitval = [w \in Workers |-> 0]
    /\ after_queue = <<>>
    /\ cb_idx = -1
    /\ cb_detached = FALSE
    /\ cb_list = <<>>
    /\ ops = 0

\* the window at start with qiskit_aer installed: lines 177, 190
GuiStart ==
    /\ GuiWidgets
    /\ shots_var = "1024"
    /\ aer_available = TRUE
    /\ mode_var = "quantum"

\* no call of batch_rolls under way
BatchIdle ==
    /\ bpc = "idle"
    /\ n_rolls = 0
    /\ use_aer = FALSE
    /\ results = <<>>
    /\ remaining = 0
    /\ samples = <<>>
    /\ requests = 0

DiceStart == GuiStart /\ BatchIdle /\ bitval = 0

\* cells of the board: lines 14 and 17
NumCells == 9

Cells == 1..NumCells

\* the game window at start: lines 14-17, 113-124
TttStart ==
    /\ player_turn = TRUE
    /\ clicked_cells = [i \in Cells |-> FALSE]
    /\ button_text = [i \in Cells |-> ""]
    /\ button_state = [i \in Cells |-> "normal"]
    /\ board_qc = {}
    /\ turn_label = "Player X's turn"

\* the BB84 window before any click: nothing entered, nothing shown
BB84Idle ==
    /\ message = <<>>
    /\ alice_bits = <<>>
    /\ alice_bases = <<>>
    /\ bob_bases = <<>>
    /\ bob_results = <<>>
    /\ bob_counts = <<>>
    /\ shared_key = <<>>
    /\ message_bits = <<>>
    /\ key_for_message = <<>>
    /\ cipher_bits = <<>>
    /\ decrypted_bits = <<>>
    /\ decrypted_message = <<>>
    /\ raised = "none"
    /\ outcome = "idle"
    /\ status_label = ""
    /\ text_output = <<>>

Init ==
    /\ DiceStart
    /\ TttStart
    /\ BB84Idle

\* run_simulation with an empty entry: lines 55-58
RejectEmpty ==
    /\ message' = <<>>
    /\ outcome' = "rejected"
    /\ status_label' = "Enter a message to send."
    /\ UNCHANGED <<alice_bits, alice_bases, bob_bases, bob_results,
                   bob_counts, shared_key, message_bits, key_for_message,
                   cipher_bits, decrypted_bits, decrypted_message, raised,
                   text_output>>
    /\ UNCHANGED <<dicevars, tttvars>>

\* run_bb84 (lines 19-49) for one outcome of its random draws
run_bb84(msg, base, p, special) ==
    LET k(i)  == KindAt(i, base, p, special)
        abits == [i \in 1..num_bits |-> k(i).bit]
        abas  == [i \in 1..num_bits |-> k(i).abasis]
        bbas  == [i \in 1..num_bits |-> k(i).bbasis]
        qcs   == [i \in 1..num_bits |-> encode_bit(abits[i], abas[i])]
        cnts  == [i \in 1..num_bits |->
                    CountsKeys(BobCircuit(qcs[i], bbas[i]))]
        bres  == [i \in 1..num_bits |->
                    MeasuredBit(BobCircuit(qcs[i], bbas[i]), k(i).first)]
        key   == Sift(abits, bres, abas, bbas)
    IN  [message |-> msg, alice_bits |-> abits, alice_bases |-> abas,
         bob_bases |-> bbas, bob_counts |-> cnts, bob_results |-> bres,
         shared_key |-> key, rest |-> Lines38to47(msg, key)]

\* the runs the draws of this model produce for the messages of the entry
PossibleRuns ==
    {run_bb84(msg, base, p, special) :
        msg \in EntryMessages \ {<<>>}, base \in RoundKinds,
        p \in 1..MaxVaried, special \in RoundKinds}

\* run_simulation with a message: lines 55-73, run_bb84 included
RunSimulation ==
    \E r \in PossibleRuns :
      /\ message' = r.message
      /\ alice_bits' = r.alice_bits
      /\ alice_bases' = r.alice_bases
      /\ bob_bases' = r.bob_bases
      /\ bob_results' = r.bob_results
      /\ bob_counts' = r.bob_counts
      /\ shared_key' = r.shared_key
      /\ message_bits' = r.rest.message_bits
      /\ key_for_message' = r.rest.key_for_message
      /\ cipher_bits' = r.rest.cipher_bits
      /\ decrypted_bits' = r.rest.decrypted_bits
      /\ decrypted_message' = r.rest.decrypted_message
      /\ raised' = r.rest.raised
      /\ IF r.rest.raised = "none"
         THEN /\ outcome' = "complete"
              /\ text_output' = <<r.alice_bits, r.alice_bases, r.bob_bases,
                                  r.bob_results, r.shared_key,
                                  r.rest.cipher_bits,
                                  r.rest.decrypted_message>>
              /\ status_label' = "Simulation complete!"
         ELSE /\ outcome' = "raised"
              /\ UNCHANGED <<text_output, status_label>>
      /\ UNCHANGED <<dicevars, tttvars>>

Next == RejectEmpty \/ RunSimulation

Spec == Init /\ [][Next]_vars

----------------------------------------------------------------------------
(* run_bb84 from line 38 on, for every sifted key up to MaxKeyLen and      *)
(* every message: the draws in which the first rounds match in the Z basis *)
(* and carry the key, and the other rounds do not match.                   *)

\* the state at line 36 of the run whose first Len(key) rounds sift to key
SiftedState(msg, key) ==
    LET abits == [i \in 1..num_bits |-> IF i <= Len(key) THEN key[i] ELSE 0]
        abas  == [i \in 1..num_bits |-> "Z"]
        bbas  == [i \in 1..num_bits |-> IF i <= Len(key) THEN "Z" ELSE "X"]
        cnts  == [i \in 1..num_bits |->
                    CountsKeys(BobCircuit(encode_bit(abits[i], abas[i]),
                                          bbas[i]))]
        bres  == [i \in 1..num_bits |->
                    MeasuredBit(BobCircuit(encode_bit(abits[i], abas[i]),
                                           bbas[i]), 0)]
    IN  [message |-> msg, alice_bits |-> abits, alice_bases |-> abas,
         bob_bases |-> bbas, bob_counts |-> cnts, bob_results |-> bres,
         shared_key |-> Sift(abits, bres, abas, bbas)]

InitPipeline ==
    \E msg \in Messages, key \in SeqsUpTo(Bit, MaxKeyLen) :
      LET s == SiftedState(msg, key)
      IN  /\ message = s.message
          /\ alice_bits = s.alice_bits
          /\ alice_bases = s.alice_bases
          /\ bob_bases = s.bob_bases
          /\ bob_results = s.bob_results
          /\ bob_counts = s.bob_counts
          /\ shared_key = s.shared_key
          /\ DiceStart
          /\ TttStart
          /\ message_bits = <<>>
          /\ key_for_message = <<>>
          /\ cipher_bits = <<>>
          /\ decrypted_bits = <<>>
          /\ decrypted_message = <<>>
          /\ raised = "none"
          /\ outcome = "sifted"
          /\ status_label = ""
          /\ text_output = <<>>

\* lines 38-47 of run_bb84
EncryptDecrypt ==
    /\ outcome = "sifted"
    /\ LET r == Lines38to47(message, shared_key)
       IN  /\ message_bits' = r.message_bits
           /\ key_for_message' = r.key_for_message
           /\ cipher_bits' = r.cipher_bits
           /\ decrypted_bits' = r.decrypted_bits
           /\ decrypted_message' = r.decrypted_message
           /\ raised' = r.raised
           /\ outcome' = IF r.raised = "none" THEN "complete" ELSE "raised"
    /\ UNCHANGED <<message, alice_bits, alice_bases, bob_bases, bob_results,
                   bob_counts, shared_key, status_label, text_output>>
    /\ UNCHANGED <<dicevars, tttvars>>

NextPipeline == EncryptDecrypt

SpecPipeline == InitPipeline /\ [][NextPipeline]_vars

\* run_bb84 reached through the button, or called with any message
InitCalls == Init \/ InitPipeline

NextCalls == Next \/ NextPipeline

SpecCalls == InitCalls /\ [][NextCalls]_vars

----------------------------------------------------------------------------
(* Quantum dice: the rejection sampling of quantum_roll_one_rejection and  *)
(* batch_rolls.                                                            *)

\* first raw sample that is rejected
RejectFrom == 6

\* the raw samples drawn: both ends of the accepted range 0..5 and the two
\* rejected values of three qubits
SampleValues == {0, 5, 6, 7}

\* 2 ** n_qubits
max_val(n_qubits) == 2 ^ n_qubits

Max(a, b) == IF a > b THEN a ELSE b

\* Accepts that keeps no sample
Accepts_Never(val) == val < 0

\* lines 120, 143 and 155: the sample is kept
Accepts(val) == val < RejectFrom

\* FaceOf without the shift to 1..6
FaceOf_Raw(val) == val

\* lines 121, 144 and 156: the face a kept sample stands for
FaceOf(val) == val + 1

\* quantum_samples_shots expands the counts key by key (lines 94-97): equal
\* values are next to each other in the list it returns
IsGrouped(smp) ==
    \A i, j \in DOMAIN smp :
      (i < j /\ smp[i] = smp[j]) => \A k \in i..j : smp[k] = smp[i]

\* the lists quantum_samples_shots may return for a run of `shots' shots
SampleLists(shots) == {smp \in [1..shots -> SampleValues] : IsGrouped(smp)}

\* line 137
ShotsFor(rem) == Max(rem * 2, (rem * 3) \div 2)

\* the for loop of lines 142-146 over the samples still to look at
RECURSIVE AcceptInto(_, _, _)
AcceptInto(res, smp, n) ==
    IF smp = <<>> THEN res
    ELSE IF Accepts(Head(smp))
         THEN LET r == Append(res, FaceOf(Head(smp)))
              IN  IF Len(r) >= n THEN r ELSE AcceptInto(r, Tail(smp), n)
         ELSE AcceptInto(res, Tail(smp), n)

\* a call batch_rolls(n_rolls, 3, use_aer) about to start; use_aer stands
\* for AER_AVAILABLE and use_aer
InitBatch ==
    /\ bpc = "called"
    /\ n_rolls \in 0..MaxRolls
    /\ use_aer \in BOOLEAN
    /\ results = <<>>
    /\ remaining = 0
    /\ samples = <<>>
    /\ requests = 0
    /\ bitval = 0
    /\ GuiStart
    /\ BB84Idle
    /\ TttStart

\* lines 129-134
BatchEnter ==
    /\ bpc = "called"
    /\ results' = <<>>
    /\ IF use_aer
       THEN remaining' = n_rolls /\ bpc' = "aer_loop"
       ELSE remaining' = remaining /\ bpc' = "fallback"
    /\ UNCHANGED <<n_rolls, use_aer, samples, requests, bitval>>
    /\ UNCHANGED <<bb84vars, tttvars, guivars>>

\* one turn of the while loop of lines 136-147: the simulator answers, or
\* returns [] after a failed run
AerRequest ==
    /\ bpc = "aer_loop"
    /\ remaining > 0
    /\ requests < MaxRequests
    /\ \E smp \in SampleLists(ShotsFor(remaining)) \cup {<<>>} :
         /\ samples' = smp
         /\ requests' = requests + 1
         /\ IF smp = <<>>
            THEN /\ UNCHANGED <<results, remaining>>
                 /\ bpc' = IF Len(results) >= n_rolls
                           THEN "returned" ELSE "fallback"
            ELSE /\ results' = AcceptInto(results, smp, n_rolls)
                 /\ remaining' = n_rolls - Len(results')
                 /\ bpc' = bpc
    /\ UNCHANGED <<n_rolls, use_aer, bitval>>
    /\ UNCHANGED <<bb84vars, tttvars, guivars>>

\* AerSimulator() or the circuit construction raises (lines 86-87, outside
\* the try of quantum_samples_shots): batch_rolls raises
AerRaise ==
    /\ bpc = "aer_loop"
    /\ remaining > 0
    /\ bpc' = "raised"
    /\ UNCHANGED <<n_rolls, use_aer, results, remaining, samples, requests,
                   bitval>>
    /\ UNCHANGED <<bb84vars, tttvars, guivars>>

\* the loop ends: lines 148-149
AerExit ==
    /\ bpc = "aer_loop"
    /\ remaining <= 0
    /\ IF Len(results) >= n_rolls
       THEN results' = Take(results, n_rolls) /\ bpc' = "returned"
       ELSE results' = results /\ bpc' = "fallback"
    /\ UNCHANGED <<n_rolls, use_aer, remaining, samples, requests, bitval>>
    /\ UNCHANGED <<bb84vars, tttvars, guivars>>

\* one turn of the software loop of lines 153-156
FallbackDraw ==
    /\ bpc = "fallback"
    /\ Len(results) < n_rolls
    /\ \E b \in SampleValues :
         /\ bitval' = b
         /\ results' = IF Accepts(b) THEN Append(results, FaceOf(b))
                       ELSE results
    /\ UNCHANGED <<bpc, n_rolls, use_aer, remaining, samples, requests>>
    /\ UNCHANGED <<bb84vars, tttvars, guivars>>

\* line 157
FallbackReturn ==
    /\ bpc = "fallback"
    /\ Len(results) >= n_rolls
    /\ bpc' = "returned"
    /\ UNCHANGED <<n_rolls, use_aer, results, remaining, samples, requests,
                   bitval>>
    /\ UNCHANGED <<bb84vars, tttvars, guivars>>

NextBatch ==
    \/ BatchEnter
    \/ AerRequest
    \/ AerRaise
    \/ AerExit
    \/ FallbackDraw
    \/ FallbackReturn

SpecBatch == InitBatch /\ [][NextBatch]_vars

----------------------------------------------------------------------------
(* Quantum dice: the window.  Worker threads run beside the Tk main loop,  *)
(* which serves the user's clicks and the callbacks the workers schedule   *)
(* with root.after(0, ...).  A click starts a thread in the lowest free    *)
(* slot of Workers.                                                        *)

\* line 288
HistoryLimit == 500

\* line 267
MaxShots == 200000

\* the texts tried in the qubits spinbox and in the shots entry
QubitTexts == {"1", "3", "x"}
ShotsTexts == {"1", "2", "200001", "x"}

\* int(var.get()) of the texts that are integers; the call raises on others
IntOf == ("1" :> 1) @@ ("2" :> 2) @@ ("3" :> 3) @@ ("500" :> 500) @@
         ("1024" :> 1024) @@ ("200001" :> 200001)

IsInt(text) == text \in DOMAIN IntOf

\* lines 239-240 and 277-278
ClampQubits(n) == IF n < 3 THEN 3 ELSE n

\* the raw samples of n_qubits qubits among those drawn
Draws(n_qubits) == {v \in SampleValues : v < max_val(n_qubits)}

\* the faces batch_rolls and quantum_roll_one_rejection can return
Faces == {FaceOf(v) : v \in {x \in SampleValues : Accepts(x)}}

\* the lists batch_rolls(shots) may return: every list of faces for a short
\* batch, the lists of one face for a long one
BatchResults(shots) ==
    IF shots <= MaxRolls THEN [1..shots -> Faces]
    ELSE {[i \in 1..shots |-> face] : face \in Faces}

\* list.insert(0, v)
InsertFront(h, v) == <<v>> \o h

\* self.history[:500]
Truncate(h) == Take(h, HistoryLimit)

\* a callback scheduled with root.after
Callback(kind, val, res) == [kind |-> kind, val |-> val, results |-> res]

\* set_mode, lines 227-228
set_mode == mode_var = "quantum" /\ aer_available

\* the window at start, with or without qiskit_aer installed (lines 46-51,
\* 177-182)
InitDice ==
    /\ GuiWidgets
    /\ shots_var = "1024"
    /\ aer_available \in BOOLEAN
    /\ mode_var = IF aer_available THEN "quantum" ELSE "local"
    /\ BatchIdle
    /\ bitval = 0
    /\ TttStart
    /\ BB84Idle

\* what no step of the window touches
DiceFrame == UNCHANGED <<bb84vars, tttvars, batchvars, bitval, aer_available>>

\* the loop of on_batch_complete
cbvars == <<cb_idx, cb_detached, cb_list>>

\* what the steps outside on_batch_complete and line 288 leave alone
StepFrame == DiceFrame /\ UNCHANGED cbvars

\* the main loop is between two events: no callback is running
MainIdle == cb_idx = -1

\* the list the loop of line 300 walks
WalkedList == IF cb_detached THEN cb_list ELSE history

\* the worker threads alive
Live == {w \in Workers : worker[w] # "none"}

\* the slot of the next thread
FreeSlot == CHOOSE w \in Workers \ Live : \A v \in Workers \ Live : w <= v

\* no worker is running and no callback is pending
Quiescent == Live = {} /\ after_queue = <<>> /\ MainIdle

\* the locals of the threads
locals == <<w_use_aer, w_nq, w_val, w_results, w_i, w_copy, w_shots,
            w_samples, w_bitval>>

\* thread w ends: its locals are gone
WorkerEnds(w) ==
    /\ worker' = [worker EXCEPT ![w] = "none"]
    /\ w_use_aer' = [w_use_aer EXCEPT ![w] = FALSE]
    /\ w_nq' = [w_nq EXCEPT ![w] = 0]
    /\ w_val' = [w_val EXCEPT ![w] = 0]
    /\ w_results' = [w_results EXCEPT ![w] = <<>>]
    /\ w_i' = [w_i EXCEPT ![w] = 0]
    /\ w_copy' = [w_copy EXCEPT ![w] = <<>>]
    /\ w_shots' = [w_shots EXCEPT ![w] = 0]

\* quantum_roll_one_rejection of thread w has returned or raised: its locals
\* are gone
RollEnds(w) ==
    /\ w_bitval' = [w_bitval EXCEPT ![w] = 0]
    /\ w_samples' = [w_samples EXCEPT ![w] = <<>>]

\* the user edits the qubits spinbox
TypeQubits ==
    /\ MainIdle
    /\ \E text \in QubitTexts : qubits_var' = text
    /\ UNCHANGED <<history, history_box, roll_button, roll_many_button,
                   shots_var, mode_var, last_dialog, worker, locals,
                   after_queue>>
    /\ StepFrame

\* the user edits the shots entry
TypeShots ==
    /\ MainIdle
    /\ \E text \in ShotsTexts : shots_var' = text
    /\ UNCHANGED <<history, history_box, roll_button, roll_many_button,
                   qubits_var, mode_var, last_dialog, worker, locals,
                   after_queue>>
    /\ StepFrame

\* the user picks a mode in the combobox, which is disabled without
\* qiskit_aer: lines 177-182
SelectMode ==
    /\ MainIdle
    /\ aer_available
    /\ \E mode \in {"quantum", "local"} : mode_var' = mode
    /\ UNCHANGED <<history, history_box, roll_button, roll_many_button,
                   qubits_var, shots_var, last_dialog, worker, locals,
                   after_queue>>
    /\ StepFrame

\* roll_once, lines 230-233; a disabled button takes no click
roll_once ==
    /\ MainIdle
    /\ roll_button = "normal"
    /\ Live # Workers
    /\ roll_button' = "disabled"
    /\ roll_many_button' = "disabled"
    /\ worker' = [worker EXCEPT ![FreeSlot] = "once_start"]
    /\ UNCHANGED <<history, history_box, qubits_var, shots_var, mode_var,
                   last_dialog, locals, after_queue>>
    /\ StepFrame

\* roll_many_prompt, lines 260-272; a disabled button takes no click
roll_many_prompt ==
    /\ MainIdle
    /\ roll_many_button = "normal"
    /\ IF ~IsInt(shots_var)
       THEN /\ last_dialog' = "Shots must be an integer."
            /\ UNCHANGED <<roll_button, roll_many_button, worker, w_shots>>
       ELSE IF IntOf[shots_var] <= 0 \/ IntOf[shots_var] > MaxShots
       THEN /\ last_dialog' = "Shots must be between 1 and 200000."
            /\ UNCHANGED <<roll_button, roll_many_button, worker, w_shots>>
       ELSE /\ Live # Workers
            /\ roll_many_button' = "disabled"
            /\ roll_button' = "disabled"
            /\ worker' = [worker EXCEPT ![FreeSlot] = "many_start"]
            /\ w_shots' = [w_shots EXCEPT ![FreeSlot] = IntOf[shots_var]]
            /\ UNCHANGED last_dialog
    /\ UNCHANGED <<history, history_box, qubits_var, shots_var, mode_var,
                   w_use_aer, w_nq, w_val, w_results, w_i, w_copy, w_samples,
                   w_bitval, after_queue>>
    /\ StepFrame

\* clear_history, lines 322-325
clear_history ==
    /\ MainIdle
    /\ history' = <<>>
    /\ history_box' = <<>>
    /\ UNCHANGED <<roll_button, roll_many_button, qubits_var, shots_var,
                   mode_var, last_dialog, worker, locals, after_queue>>
    /\ StepFrame

\* line 308
NoDataText ==
    "No history available. Please roll first or set a Shots value and " \o
    "click 'Roll Many'."

\* show_histogram, lines 305-320: the message box on an empty history; the
\* plot of a non-empty one changes nothing of the window
show_histogram ==
    /\ MainIdle
    /\ last_dialog' =
         IF history = <<>>
         THEN NoDataText
         ELSE last_dialog
    /\ UNCHANGED <<history, history_box, roll_button, roll_many_button,
                   qubits_var, shots_var, mode_var, worker, locals,
                   after_queue>>
    /\ StepFrame

\* the shots entry asks for no batch longer than MaxRolls
ShortBatch ==
    IsInt(shots_var) =>
      (IntOf[shots_var] <= MaxRolls \/ IntOf[shots_var] > MaxShots)

\* one more click or edit of at most max
Within(max) == ops < max /\ ops' = ops + 1

\* lines 236 and 275: thread w reads the mode
WorkerReadMode(w) ==
    /\ worker[w] \in {"once_start", "many_start"}
    /\ w_use_aer' = [w_use_aer EXCEPT ![w] = set_mode]
    /\ worker' = [worker EXCEPT ![w] =
                    IF worker[w] = "once_start" THEN "once_mode_read"
                    ELSE "many_mode_read"]
    /\ UNCHANGED <<history, history_box, roll_button, roll_many_button,
                   qubits_var, shots_var, mode_var, last_dialog, w_nq, w_val,
                   w_results, w_i, w_copy, w_shots, w_samples, w_bitval,
                   after_queue, ops>>
    /\ StepFrame

\* lines 237-240 and 276-278: thread w reads the qubits spinbox.
\* int(self.qubits_var.get()) is outside the try: on a text that is no
\* integer the exception ends the thread.
WorkerReadQubits(w) ==
    /\ worker[w] \in {"once_mode_read", "many_mode_read"}
    /\ IF IsInt(qubits_var)
       THEN /\ w_nq' = [w_nq EXCEPT ![w] = ClampQubits(IntOf[qubits_var])]
            /\ worker' = [worker EXCEPT ![w] =
                            IF worker[w] = "once_mode_read" THEN "once_roll"
                            ELSE "many_call"]
            /\ UNCHANGED <<w_use_aer, w_val, w_results, w_i, w_copy,
                           w_shots>>
       ELSE WorkerEnds(w)
    /\ UNCHANGED <<history, history_box, roll_button, roll_many_button,
                   qubits_var, shots_var, mode_var, last_dialog, w_samples,
                   w_bitval, after_queue, ops>>
    /\ StepFrame

\* one turn of the loop of quantum_roll_one_rejection in thread w, lines
\* 110-122, with the simulator's answer smp (none in local mode) and the
\* sample b
RollIteration(w, smp, b) ==
    /\ worker[w] = "once_roll"
    /\ w_samples' = [w_samples EXCEPT ![w] = smp]
    /\ w_bitval' = [w_bitval EXCEPT ![w] = b]
    /\ IF Accepts(b)
       THEN /\ w_val' = [w_val EXCEPT ![w] = FaceOf(b)]
            /\ worker' = [worker EXCEPT ![w] = "once_rolled"]
       ELSE UNCHANGED <<w_val, worker>>
    /\ UNCHANGED <<history, history_box, roll_button, roll_many_button,
                   qubits_var, shots_var, mode_var, last_dialog, w_use_aer,
                   w_nq, w_results, w_i, w_copy, w_shots, after_queue, ops>>
    /\ StepFrame

\* the turns of the loop drawing b: the one-shot run answers b (lines 112,
\* 117), or it returns [] and secrets.randbelow gives b (lines 113-115), or
\* the mode is local (line 119)
TurnDrawing(w, b) ==
    IF w_use_aer[w]
    THEN RollIteration(w, <<b>>, b) \/ RollIteration(w, <<>>, b)
    ELSE RollIteration(w, w_samples[w], b)

\* a turn whose sample is kept: line 121
AcceptDraw(w) == \E b \in Draws(w_nq[w]) : Accepts(b) /\ TurnDrawing(w, b)

\* a turn whose sample is rejected: line 122
RejectDraw(w) == \E b \in Draws(w_nq[w]) : ~Accepts(b) /\ TurnDrawing(w, b)

\* quantum_roll_one_rejection raises (AerSimulator() or the circuit, lines
\* 86-87): lines 243-247
OnceRaise(w) ==
    /\ worker[w] = "once_roll"
    /\ w_use_aer[w]
    /\ w_val' = [w_val EXCEPT ![w] = 0]
    /\ after_queue' = Append(after_queue, Callback("showerror", 0, <<>>))
    /\ worker' = [worker EXCEPT ![w] = "once_failed"]
    /\ RollEnds(w)
    /\ UNCHANGED <<history, history_box, roll_button, roll_many_button,
                   qubits_var, shots_var, mode_var, last_dialog, w_use_aer,
                   w_nq, w_results, w_i, w_copy, w_shots, ops>>
    /\ StepFrame

\* line 248
OnceEnableRoll(w) ==
    /\ worker[w] = "once_failed"
    /\ after_queue' = Append(after_queue, Callback("enable_roll", 0, <<>>))
    /\ worker' = [worker EXCEPT ![w] = "once_enabling"]
    /\ UNCHANGED <<history, history_box, roll_button, roll_many_button,
                   qubits_var, shots_var, mode_var, last_dialog, locals, ops>>
    /\ StepFrame

\* lines 249-250
OnceEnableMany(w) ==
    /\ worker[w] = "once_enabling"
    /\ after_queue' = Append(after_queue, Callback("enable_many", 0, <<>>))
    /\ WorkerEnds(w)
    /\ UNCHANGED <<history, history_box, roll_button, roll_many_button,
                   qubits_var, shots_var, mode_var, last_dialog, w_samples,
                   w_bitval, ops>>
    /\ StepFrame

\* line 251
OnceInsert(w) ==
    /\ worker[w] = "once_rolled"
    /\ history' = InsertFront(history, w_val[w])
    /\ worker' = [worker EXCEPT ![w] = "once_inserted"]
    /\ RollEnds(w)
    /\ UNCHANGED <<history_box, roll_button, roll_many_button, qubits_var,
                   shots_var, mode_var, last_dialog, w_use_aer, w_nq, w_val,
                   w_results, w_i, w_copy, w_shots, after_queue, ops>>
    /\ StepFrame

\* line 252
OnceSchedule(w) ==
    /\ worker[w] = "once_inserted"
    /\ after_queue' = Append(after_queue,
                             Callback("update_ui", w_val[w], <<>>))
    /\ WorkerEnds(w)
    /\ UNCHANGED <<history, history_box, roll_button, roll_many_button,
                   qubits_var, shots_var, mode_var, last_dialog, w_samples,
                   w_bitval, ops>>
    /\ StepFrame

\* lines 279-283: batch_rolls returns the faces asked for, or raises
\* (AerSimulator() or the circuit, lines 86-87)
ManyCall(w) ==
    /\ worker[w] = "many_call"
    /\ \E res \in BatchResults(w_shots[w]) \cup {<<>>} :
         /\ (res = <<>>) => w_use_aer[w]
         /\ w_results' = [w_results EXCEPT ![w] = res]
         /\ w_i' = [w_i EXCEPT ![w] = Len(res)]
    /\ worker' = [worker EXCEPT ![w] = "many_insert"]
    /\ UNCHANGED <<history, history_box, roll_button, roll_many_button,
                   qubits_var, shots_var, mode_var, last_dialog, w_use_aer,
                   w_nq, w_val, w_copy, w_shots, w_samples, w_bitval,
                   after_queue, ops>>
    /\ StepFrame

\* one turn of the loop of lines 285-286
ManyInsert(w) ==
    /\ worker[w] = "many_insert"
    /\ w_i[w] > 0
    /\ history' = InsertFront(history, w_results[w][w_i[w]])
    /\ w_i' = [w_i EXCEPT ![w] = w_i[w] - 1]
    /\ UNCHANGED <<history_box, roll_button, roll_many_button, qubits_var,
                   shots_var, mode_var, last_dialog, worker, w_use_aer, w_nq,
                   w_val, w_results, w_copy, w_shots, w_samples, w_bitval,
                   after_queue, ops>>
    /\ StepFrame

\* line 288, right-hand side
ManySlice(w) ==
    /\ worker[w] = "many_insert"
    /\ w_i[w] = 0
    /\ w_copy' = [w_copy EXCEPT ![w] = Truncate(history)]
    /\ worker' = [worker EXCEPT ![w] = "many_assign"]
    /\ UNCHANGED <<history, history_box, roll_button, roll_many_button,
                   qubits_var, shots_var, mode_var, last_dialog, w_use_aer,
                   w_nq, w_val, w_results, w_i, w_shots, w_samples, w_bitval,
                   after_queue, ops>>
    /\ StepFrame

\* line 288, assignment: self.history becomes another list; a loop of
\* on_batch_complete under way goes on walking the old one
ManyAssign(w) ==
    /\ worker[w] = "many_assign"
    /\ history' = w_copy[w]
    /\ worker' = [worker EXCEPT ![w] = "many_assigned"]
    /\ IF ~MainIdle /\ ~cb_detached
       THEN cb_detached' = TRUE /\ cb_list' = history /\ UNCHANGED cb_idx
       ELSE UNCHANGED cbvars
    /\ UNCHANGED <<history_box, roll_button, roll_many_button, qubits_var,
                   shots_var, mode_var, last_dialog, locals, after_queue,
                   ops>>
    /\ DiceFrame

\* line 289
ManySchedule(w) ==
    /\ worker[w] = "many_assigned"
    /\ after_queue' = Append(after_queue,
                             Callback("batch_complete", 0, w_results[w]))
    /\ WorkerEnds(w)
    /\ UNCHANGED <<history, history_box, roll_button, roll_many_button,
                   qubits_var, shots_var, mode_var, last_dialog, w_samples,
                   w_bitval, ops>>
    /\ StepFrame

\* the main loop serves the oldest scheduled callback: lines 247-249,
\* update_ui_with_result (254-258), on_batch_complete (291-303) up to the
\* loop of line 300
RunCallback ==
    /\ MainIdle
    /\ after_queue # <<>>
    /\ LET cb == Head(after_queue) IN
       /\ after_queue' = Tail(after_queue)
       /\ roll_button' =
            IF cb.kind \in {"enable_roll", "update_ui", "batch_complete"}
            THEN "normal" ELSE roll_button
       /\ roll_many_button' =
            IF cb.kind \in {"enable_many", "update_ui", "batch_complete"}
            THEN "normal" ELSE roll_many_button
       /\ history_box' =
            IF cb.kind = "update_ui" THEN InsertFront(history_box, cb.val)
            ELSE IF cb.kind = "batch_complete" /\ cb.results # <<>>
                 THEN <<>>
                 ELSE history_box
       /\ cb_idx' =
            IF cb.kind = "batch_complete" /\ cb.results # <<>>
            THEN 0 ELSE cb_idx
       /\ last_dialog' =
            IF cb.kind = "showerror" THEN "Could not generate roll."
            ELSE IF cb.kind = "batch_complete" /\ cb.results = <<>>
                 THEN "Batch roll failed or returned no results."
                 ELSE last_dialog
    /\ UNCHANGED <<history, qubits_var, shots_var, mode_var, worker, locals,
                   cb_detached, cb_list, ops>>
    /\ DiceFrame

\* one turn of the loop of lines 300-301: the next entry of the walked list
\* goes to the end of the listbox, or the list is exhausted and
\* on_batch_complete returns.  The threads run between two turns.
BatchCompleteShow ==
    /\ ~MainIdle
    /\ IF cb_idx < Len(WalkedList)
       THEN /\ history_box' = Append(history_box, WalkedList[cb_idx + 1])
            /\ cb_idx' = cb_idx + 1
            /\ UNCHANGED <<cb_detached, cb_list>>
       ELSE /\ cb_idx' = -1
            /\ cb_detached' = FALSE
            /\ cb_list' = <<>>
            /\ UNCHANGED history_box
    /\ UNCHANGED <<history, roll_button, roll_many_button, qubits_var,
                   shots_var, mode_var, last_dialog, worker, locals,
                   after_queue, ops>>
    /\ DiceFrame

\* the steps of thread w other than the turns of the rejection loop and the
\* failure of the simulator
WorkerStep(w) ==
    \/ WorkerReadMode(w)
    \/ WorkerReadQubits(w)
    \/ OnceEnableRoll(w)
    \/ OnceEnableMany(w)
    \/ OnceInsert(w)
    \/ OnceSchedule(w)
    \/ ManyCall(w)
    \/ ManyInsert(w)
    \/ ManySlice(w)
    \/ ManyAssign(w)
    \/ ManySchedule(w)

\* the steps of the threads and of the main loop's callback service
ProgramStep ==
    \/ \E w \in Workers : WorkerStep(w)
    \/ \E w \in Workers : AcceptDraw(w)
    \/ \E w \in Workers : RejectDraw(w)
    \/ \E w \in Workers : OnceRaise(w)
    \/ RunCallback
    \/ BatchCompleteShow

NextDice ==
    \/ Within(MaxOps) /\ TypeQubits
    \/ Within(MaxOps) /\ TypeShots
    \/ Within(MaxOps) /\ SelectMode
    \/ Within(MaxOps) /\ roll_once
    \/ Within(MaxOps) /\ ShortBatch /\ roll_many_prompt
    \/ Within(MaxOps) /\ clear_history
    \/ Within(MaxOps) /\ show_histogram
    \/ ProgramStep

SpecDice == InitDice /\ [][NextDice]_vars

\* the thread scheduler runs every worker, the main loop serves the
\* callbacks and the random source keeps offering samples below 6
FairSpecDice ==
    /\ SpecDice
    /\ \A w \in Workers : WF_vars(WorkerStep(w))
    /\ \A w \in Workers : WF_vars(AcceptDraw(w))
    /\ WF_vars(RunCallback)
    /\ WF_vars(BatchCompleteShow)

----------------------------------------------------------------------------
(* Quantum dice: the size of the history.  The same window, with 500 typed *)
(* in the shots entry, driven by clicks on Roll Once, Roll Many and Clear  *)
(* History only.                                                           *)

InitHistory ==
    /\ GuiWidgets
    /\ shots_var = "500"
    /\ aer_available \in BOOLEAN
    /\ mode_var = IF aer_available THEN "quantum" ELSE "local"
    /\ BatchIdle
    /\ bitval = 0
    /\ TttStart
    /\ BB84Idle

NextHistory ==
    \/ Within(MaxClicks) /\ roll_once
    \/ Within(MaxClicks) /\ roll_many_prompt
    \/ Within(MaxClicks) /\ clear_history
    \/ ProgramStep

SpecHistory == InitHistory /\ [][NextHistory]_vars

----------------------------------------------------------------------------
(* Quantum Tic-Tac-Toe.  Cell i of the model is index i - 1 of the program. *)

\* SymbolOf that marks every cell with X
SymbolOf_AlwaysX(turn) == "X"

\* lines 42-45
SymbolOf(turn) == IF turn THEN "X" ELSE "O"

\* update_status, line 76
TurnLabel(turn) == IF turn THEN "Player X's turn" ELSE "Player O's turn"

\* lines 79-83
WinLines == { <<1, 2, 3>>, <<4, 5, 6>>, <<7, 8, 9>>,
              <<1, 4, 7>>, <<2, 5, 8>>, <<3, 6, 9>>,
              <<1, 5, 9>>, <<3, 5, 7>> }

\* lines 85-91: some line holds three times sym
Wins(text, sym) ==
    \E line \in WinLines :
      /\ text[line[1]] = text[line[2]]
      /\ text[line[2]] = text[line[3]]
      /\ text[line[1]] # ""
      /\ text[line[1]] = sym

\* the text of line 104; its three characters U+00E2, U+20AC and U+201D
\* stand as their code points between the two runs of plain characters
NoWinnerLabel == <<"No winner yet ", 226, 8364, 8221, " keep playing!">>

\* the status check_win shows for the board `text', lines 93-104; qbit is
\* the value of quantum_random_bit(), used when both players hold a line
CheckWinLabel(text, qbit) ==
    IF Wins(text, "X") /\ Wins(text, "O")
    THEN IF qbit = 0
         THEN "Quantum tie! Collapsed randomly to Player X wins!"
         ELSE "Quantum tie! Collapsed randomly to Player O wins!"
    ELSE IF Wins(text, "X") THEN "Player X wins!"
    ELSE IF Wins(text, "O") THEN "Player O wins!"
    ELSE IF \A i \in Cells : text[i] # "" THEN "It's a draw!"
    ELSE NoWinnerLabel

\* the measurement outcomes tried, cell by cell: all 0, all 1, a board where
\* both players hold a line, and a board where nobody does.  qc has no
\* measurement, so the program draws the outcome with random.choice (line
\* 64) whatever gates qc carries; every string of nine bits is possible.
Outcomes == { [i \in Cells |-> 0],
              [i \in Cells |-> 1],
              <<0, 0, 0, 1, 1, 1, 0, 1, 0>>,
              <<0, 1, 0, 0, 1, 1, 1, 0, 0>> }

\* lines 66-70: the text a measured bit gives a cell
CollapsedText(measured) ==
    [i \in Cells |-> IF measured[i] = 1 THEN "O" ELSE "X"]

\* collapse_board has run: it disabled every cell button
Collapsed == \A i \in Cells : button_state[i] = "disabled"

InitGame ==
    /\ TttStart
    /\ DiceStart
    /\ BB84Idle

\* quantum_move(index), lines 36-49; a disabled button takes no click
quantum_move(index) ==
    /\ button_state[index] = "normal"
    /\ IF clicked_cells[index]
       THEN UNCHANGED tttvars
       ELSE /\ clicked_cells' = [clicked_cells EXCEPT ![index] = TRUE]
            /\ button_text' =
                 [button_text EXCEPT ![index] = SymbolOf(player_turn)]
            /\ board_qc' = board_qc \cup {index}
            /\ player_turn' = ~player_turn
            /\ turn_label' = TurnLabel(player_turn')
            /\ UNCHANGED button_state
    /\ UNCHANGED <<bb84vars, dicevars>>

\* a click on one of the nine cells
CellClick == \E index \in Cells : quantum_move(index)

\* collapse_board, lines 51-73, with check_win, lines 78-108
collapse_board ==
    /\ \E measured \in Outcomes, qbit \in {0, 1} :
         /\ button_text' = CollapsedText(measured)
         /\ turn_label' = CheckWinLabel(button_text', qbit)
    /\ button_state' = [i \in Cells |-> "disabled"]
    /\ clicked_cells' = [i \in Cells |-> TRUE]
    /\ UNCHANGED <<player_turn, board_qc>>
    /\ UNCHANGED <<bb84vars, dicevars>>

NextGame ==
    \/ CellClick
    \/ collapse_board

SpecGame == InitGame /\ [][NextGame]_vars

----------------------------------------------------------------------------
(* Properties *)

\* a run_bb84 call has been made and its locals are in the variables
RunMade == outcome \in {"complete", "raised"}

\* the rounds in which sender and receiver basis coincide
Matched == {i \in 1..Len(alice_bases) : alice_bases[i] = bob_bases[i]}

\* the j-th matched round, in increasing round order
NthMatched(j) ==
    CHOOSE i \in Matched : Cardinality({m \in Matched : m <= i}) = j

InRange(msg) == \A i \in 1..Len(msg) : msg[i] \in 0..255

\* C1: in every run, the measured bit of every round with matching bases
\* equals the sender's bit, so every bit of shared_key is the sender's bit of
\* the matched round it came from.
C1_MatchedBitEqualsSent ==
    RunMade =>
      /\ \A i \in Matched : bob_results[i] = alice_bits[i]
      /\ \A j \in 1..Len(shared_key) :
            shared_key[j] = alice_bits[NthMatched(j)]

\* C2: shared_key holds exactly one element per matched round, the one
\* recorded for that round, in increasing round order, and none for a
\* mismatched round; its length is the number of matched rounds, at most 8.
C2_SiftKeepsMatchedRounds ==
    RunMade =>
      /\ Len(shared_key) = Cardinality(Matched)
      /\ Len(shared_key) <= 8
      /\ \A j \in 1..Len(shared_key) :
            shared_key[j] = bob_results[NthMatched(j)]

\* a run with both matched and mismatched rounds whose key is the list of
\* the matched results
C2_Witness ==
    /\ RunMade
    /\ Matched # {}
    /\ Matched # 1..num_bits
    /\ 1 \notin Matched
    /\ Len(shared_key) = Cardinality(Matched)
    /\ \E i \in Matched : bob_results[i] = 1

\* a run in which every round matches and the key has both values
C2_WitnessOrder ==
    /\ RunMade
    /\ Matched = 1..num_bits
    /\ shared_key = <<1, 0, 0, 0, 0, 0, 0, 0>>

\* C3: a run in which no round has matching bases ends with an explicit
\* key-agreement failure, raised before the key expansion is attempted.
C3_EmptyKeySignalsFailure ==
    (RunMade /\ shared_key = <<>>) =>
      /\ raised = "KeyAgreementFailure"
      /\ outcome = "raised"

\* C4: for every message over code points 0..255 and every run whose
\* shared_key is non-empty, the run completes and decrypted_message is the
\* message.
C4_DecryptedIsMessage ==
    (RunMade /\ shared_key # <<>> /\ InRange(message)) =>
      /\ outcome = "complete"
      /\ decrypted_message = message

\* the example of the specification: "HI" under the sifted key 1,0,1,1,0
C4_Witness ==
    /\ outcome = "complete"
    /\ message = <<72, 73>>
    /\ shared_key = <<1, 0, 1, 1, 0>>
    /\ Len(key_for_message) = 16
    /\ cipher_bits # message_bits
    /\ decrypted_message = <<72, 73>>

\* C5: for every non-empty shared_key and every plaintext bit length, the
\* expanded key has exactly the length of message_bits.
C5_ExpandedKeyLength ==
    (RunMade /\ shared_key # <<>>) =>
      Len(key_for_message) = Len(message_bits)

\* a key that does not divide the bit length, cut in the middle of a copy
C5_Witness ==
    /\ outcome = "complete"
    /\ Len(shared_key) > 1
    /\ Len(message_bits) > Len(shared_key)
    /\ Len(message_bits) % Len(shared_key) # 0
    /\ Len(key_for_message) = Len(message_bits)

\* the empty message: bit length 0
C5_WitnessEmpty ==
    /\ outcome = "complete"
    /\ shared_key # <<>>
    /\ message_bits = <<>>
    /\ key_for_message = <<>>

\* C6: the expanded key is the sifted key repeated cyclically and cut to the
\* bit length: its i-th bit, counted from 0, is shared_key[i mod len].
C6_CyclicRepetition ==
    (RunMade /\ shared_key # <<>>) =>
      \A i \in 1..Len(message_bits) :
        /\ i \in DOMAIN key_for_message
        /\ key_for_message[i] =
             shared_key[((i - 1) % Len(shared_key)) + 1]

\* a key with both values, repeated more than once
C6_Witness ==
    /\ outcome = "complete"
    /\ Len(shared_key) > 1
    /\ Len(message_bits) > 2 * Len(shared_key)
    /\ \E i, j \in 1..Len(shared_key) : shared_key[i] # shared_key[j]
    /\ key_for_message[Len(shared_key) + 1] = shared_key[1]

\* C7: transforming equal-length bit lists twice with the same key gives
\* the first list back, for every pair of bit lists of one length up to
\* MaxBits, and in every run of run_bb84 that reaches decryption
\* decrypted_bits equals message_bits.
C7_Involution ==
    /\ \A b, k \in SeqsUpTo(Bit, MaxBits) :
         Len(b) = Len(k) => Xor(Xor(b, k), k) = b
    /\ outcome = "complete" =>
         /\ Len(key_for_message) = Len(message_bits)
         /\ decrypted_bits = Xor(Xor(message_bits, key_for_message),
                                 key_for_message)
         /\ decrypted_bits = message_bits

\* a run whose key changes the bits, undone by the second transform
C7_Witness ==
    /\ outcome = "complete"
    /\ Len(message_bits) >= 8
    /\ \E i, j \in 1..Len(key_for_message) :
         key_for_message[i] # key_for_message[j]
    /\ cipher_bits # message_bits
    /\ decrypted_bits = message_bits

\* C8: cipher_bits has the length of message_bits and its i-th bit is the
\* exclusive or of the i-th bits of message_bits and key_for_message.
C8_CipherIsXor ==
    outcome = "complete" =>
      /\ Len(cipher_bits) = Len(message_bits)
      /\ \A i \in 1..Len(message_bits) :
           /\ i \in DOMAIN cipher_bits
           /\ i \in DOMAIN key_for_message
           /\ cipher_bits[i] =
                (IF message_bits[i] = key_for_message[i] THEN 0 ELSE 1)

\* two characters encrypted under a key with both values
C8_Witness ==
    /\ outcome = "complete"
    /\ Len(cipher_bits) = 16
    /\ \E i, j \in 1..16 : key_for_message[i] # key_for_message[j]
    /\ \E i \in 1..16 : cipher_bits[i] = 1 /\ message_bits[i] = 1
    /\ \E i \in 1..16 : cipher_bits[i] = 1 /\ message_bits[i] = 0

\* C10: a message over code points 0..255 is encoded 8 bits per character,
\* most significant bit first, and decoding those bits gives the message.
C10_CodecRoundTrip ==
    (outcome = "complete" /\ InRange(message)) =>
      /\ Len(message_bits) = 8 * Len(message)
      /\ \A j \in 1..Len(message) : \A b \in 1..8 :
           /\ 8 * (j - 1) + b \in DOMAIN message_bits
           /\ message_bits[8 * (j - 1) + b] = (message[j] \div 2^(8 - b)) % 2
      /\ decrypted_bits = message_bits => decrypted_message = message

\* the two ends of the range: U+00FF followed by NUL
C10_Witness ==
    /\ outcome = "complete"
    /\ message = <<255, 0>>
    /\ decrypted_bits = message_bits
    /\ message_bits = <<1, 1, 1, 1, 1, 1, 1, 1, 0, 0, 0, 0, 0, 0, 0, 0>>
    /\ decrypted_message = <<255, 0>>

\* C11: message_bits and cipher_bits hold exactly 8 bits per character of
\* the message, whatever the code points of the characters.
C11_EightBitsPerCharacter ==
    /\ RunMade => Len(message_bits) = 8 * Len(message)
    /\ outcome = "complete" => Len(cipher_bits) = 8 * Len(message)

\* C12: decoding a bit list whose length is not a multiple of 8 fails with
\* MalformedBitLength and yields no text.
C12_MalformedLengthRaised ==
    (outcome = "complete" /\ Len(decrypted_bits) % 8 # 0) =>
      /\ raised = "MalformedBitLength"
      /\ decrypted_message = <<>>

\* C20: "Simulation complete!" is on display only while the text widget
\* shows the results of the latest click.
C20_CompleteMeansLatestShown ==
    status_label = "Simulation complete!" =>
      /\ outcome = "complete"
      /\ text_output = <<alice_bits, alice_bases, bob_bases, bob_results,
                         shared_key, cipher_bits, decrypted_message>>

\* C13 as stated: the empty message, whenever the key is not empty, runs to
\* completion with an empty expanded key, empty cipher_bits and the
\* decrypted message "", also when it is entered in the window.
C13_EmptyMessageDelivered ==
    (message = <<>> /\ outcome \in {"complete", "rejected"}) =>
      /\ outcome = "complete"
      /\ key_for_message = <<>>
      /\ cipher_bits = <<>>
      /\ decrypted_message = <<>>

\* C13, amended: run_bb84 called with the empty message and a non-empty key
\* completes with an empty expanded key, empty cipher_bits and the decrypted
\* message ""; run_simulation rejects an empty entry with the status
\* "Enter a message to send." and never displays such a result.
C13_EmptyMessageRunOrRejected ==
    /\ (RunMade /\ message = <<>> /\ shared_key # <<>>) =>
          /\ outcome = "complete"
          /\ key_for_message = <<>>
          /\ cipher_bits = <<>>
          /\ decrypted_message = <<>>
    /\ outcome = "rejected" =>
          /\ message = <<>>
          /\ status_label = "Enter a message to send."
    /\ text_output # <<>> => text_output[7] # <<>>

\* run_bb84 has completed for the empty message under a key with both values
C13_Witness ==
    /\ outcome = "complete"
    /\ message = <<>>
    /\ \E i, j \in 1..Len(shared_key) : shared_key[i] # shared_key[j]
    /\ message_bits = <<>>
    /\ key_for_message = <<>>
    /\ cipher_bits = <<>>
    /\ decrypted_message = <<>>

\* an empty entry rejected after a completed run, whose results stay on display
C13_WitnessRejected ==
    /\ outcome = "rejected"
    /\ status_label = "Enter a message to send."
    /\ text_output # <<>>

\* C14: in every round whose receiver basis differs from the sender basis
\* the measurement counts both outcomes 0 and 1, whatever bit was sent, and
\* the recorded result is one of them: the set of possible results does not
\* depend on the sent bit.
C14_MismatchedOutcomesBothPossible ==
    RunMade =>
      \A i \in 1..Len(alice_bases) :
        alice_bases[i] # bob_bases[i] =>
          /\ bob_counts[i] = {0, 1}
          /\ bob_results[i] \in bob_counts[i]

\* two mismatched rounds with the same sent bit and different results
C14_Witness ==
    /\ RunMade
    /\ \E i, j \in 1..Len(alice_bases) :
         /\ alice_bases[i] # bob_bases[i]
         /\ alice_bases[j] # bob_bases[j]
         /\ alice_bits[i] = alice_bits[j]
         /\ bob_results[i] # bob_results[j]

\* two mismatched rounds with different sent bits and the same result
C14_WitnessSameResult ==
    /\ RunMade
    /\ \E i, j \in 1..Len(alice_bases) :
         /\ alice_bases[i] # bob_bases[i]
         /\ alice_bases[j] # bob_bases[j]
         /\ alice_bits[i] # alice_bits[j]
         /\ alice_bases[i] = alice_bases[j]
         /\ bob_results[i] = bob_results[j]


\* C15: batch_rolls returns exactly n_rolls results, each in 1..6, whether
\* the simulator answers every request, fails on the first or a later
\* request, or is unavailable; no raw sample of 6 or more becomes a result.
C15_BatchReturnsExactlyNRolls ==
    bpc = "returned" =>
      /\ Len(results) = n_rolls
      /\ \A i \in 1..Len(results) : results[i] \in 1..6

\* the simulator answered the first request and failed on the second; the
\* software loop supplied the remainder
C15_Witness ==
    /\ bpc = "returned"
    /\ use_aer
    /\ requests = 2
    /\ samples = <<>>
    /\ n_rolls = 3
    /\ results = <<1, 6, 6>>
    /\ bitval = 5

\* the simulator answered every request
C15_WitnessAnswered ==
    /\ bpc = "returned"
    /\ use_aer
    /\ requests = 2
    /\ samples # <<>>
    /\ Len(results) = 3

\* the simulator is unavailable
C15_WitnessUnavailable ==
    /\ bpc = "returned"
    /\ ~use_aer
    /\ Len(results) = 3


\* C16: the rejection loop of quantum_roll_one_rejection turns again on a
\* sample of 6 or more and leaves only with an accepted sample, returning it
\* plus 1, a value in 1..6; while samples below 6 keep being offered it ends,
\* also when the simulator returns no sample and the software draw is used.
C16_RejectionLoopTerminates ==
    /\ [](\A w \in Workers :
            worker[w] = "once_rolled" =>
              /\ w_bitval[w] < 6
              /\ w_val[w] = w_bitval[w] + 1
              /\ w_val[w] \in 1..6)
    /\ [][\A w \in Workers :
            (worker[w] = "once_roll" /\ w_bitval'[w] >= 6)
              => worker'[w] = "once_roll"]_vars
    /\ \A w \in Workers :
         (worker[w] = "once_roll") ~> (worker[w] # "once_roll")

\* the accepted sample came from the software draw after the simulator
\* returned no sample; the spinbox asked for one qubit
C16_Witness ==
    \E w \in Workers :
      /\ worker[w] = "once_rolled"
      /\ w_use_aer[w]
      /\ w_samples[w] = <<>>
      /\ w_bitval[w] = 5
      /\ w_val[w] = 6
      /\ w_nq[w] = 3
      /\ qubits_var = "1"

\* the loop has just rejected a sample
C16_WitnessRejected ==
    \E w \in Workers :
      /\ worker[w] = "once_roll"
      /\ w_bitval[w] = 7
      /\ w_samples[w] = <<7>>

\* C18: whenever no worker thread is running and no scheduled callback is
\* pending, the history listbox lists exactly the rolls of self.history, in
\* the same order.
C18_ListboxShowsHistory ==
    Quiescent => history_box = history

\* C19: every click that disables the two roll buttons is followed by both
\* being enabled again.  Once no worker is running and no callback is
\* pending nothing can enable a button any more, so the buttons must be
\* enabled in every such state.
C19_ButtonsEnabledAgain ==
    Quiescent => (roll_button = "normal" /\ roll_many_button = "normal")

\* the same as a liveness property of the fair specification
C19_ButtonsEventuallyEnabled ==
    (roll_button = "disabled" /\ roll_many_button = "disabled")
      ~> (roll_button = "normal" /\ roll_many_button = "normal")


\* C17: after any sequence of Roll Once, Roll Many and Clear History
\* operations self.history holds at most 500 entries.
C17_HistoryAtMostLimit ==
    Len(history) <= HistoryLimit


\* the cells showing sym
Marks(sym) == Cardinality({i \in Cells : button_text[i] = sym})

\* C21: before the board is collapsed the players alternate, X first.  Any
\* step that leaves the board uncollapsed either changes neither the board nor
\* the turn, or marks exactly one unmarked cell with the symbol of the player
\* whose turn it is and passes the turn; so there are as many X as O marks
\* when it is X's turn and one more X when it is O's turn.
C21_PlayersAlternate ==
    /\ [](~Collapsed =>
            /\ player_turn => Marks("X") = Marks("O")
            /\ ~player_turn => Marks("X") = Marks("O") + 1)
    /\ [][ ~Collapsed' =>
             \/ button_text' = button_text /\ player_turn' = player_turn
             \/ \E i \in Cells :
                  /\ button_text[i] = ""
                  /\ button_text' =
                       [button_text EXCEPT
                          ![i] = IF player_turn THEN "X" ELSE "O"]
                  /\ player_turn' = ~player_turn ]_vars

\* every cell is marked by clicks alone and it is O's turn
C21_Witness ==
    /\ ~Collapsed
    /\ Marks("X") = 5
    /\ Marks("O") = 4
    /\ ~player_turn
    /\ clicked_cells = [i \in Cells |-> TRUE]

\* it is X's turn again after two clicks
C21_WitnessXTurn ==
    /\ ~Collapsed
    /\ Marks("X") = 1
    /\ Marks("O") = 1
    /\ player_turn
    /\ turn_label = "Player X's turn"

====
